---- MODULE Spec2Model ----
(***************************************************************************)
(* Model of troposphere_gen/specification.py: the Attribute, Property and  *)
(* Resource classes that parse an AWS CloudFormation resource              *)
(* specification into objects.                                             *)
(*                                                                         *)
(* A JSON object that the code only indexes (a definition) is a function   *)
(* from its keys to their values.  A JSON object that the code iterates    *)
(* with .items() is a sequence of <<key, value>> pairs with distinct keys  *)
(* (a Python dict iterates in insertion order).  A dict the code builds    *)
(* (self.attributes, self.properties) is a function from keys to objects.  *)
(* A field holding Python's None is <<>>; a field holding v is <<v>>.      *)
(***************************************************************************)
EXTENDS Integers, Sequences, FiniteSets, TLC

VARIABLES pc, call, self, todo, result, exc

vars == <<pc, call, self, todo, result, exc>>

None == <<>>
Some(v) == <<v>>

EmptyDict == [k \in {} |-> k]
Has(d, k) == k \in DOMAIN d

(***************************************************************************)
(* Outcome of a call: a returned value or a raised exception.              *)
(***************************************************************************)
Return(v) == [raised |-> FALSE, value |-> v]
Raise(e) == [raised |-> TRUE, value |-> e]
KeyError(k) == [exc |-> "KeyError", arg |-> k]
ValueError(v) == [exc |-> "ValueError", arg |-> v]

(***************************************************************************)
(* The type tags of troposphere_gen.types, opaque wrappers of their        *)
(* argument.                                                               *)
(***************************************************************************)
PrimitiveType(x) == [cls |-> "PrimitiveType", of |-> x]
Subproperty(x) == [cls |-> "Subproperty", of |-> x]
ListType(t) == [cls |-> "ListType", itemtype |-> t]
MapType(t) == [cls |-> "MapType", itemtype |-> t]

(***************************************************************************)
(* class Attribute                                                         *)
(***************************************************************************)
AttributeInit(name) ==
    [cls |-> "Attribute", name |-> name, item_type |-> None,
     primitive_item_type |-> None, primitive_type |-> None, type |-> None]

\* AttributeParse with "if" in place of "elif" before the Type test
AttributeParseTypeAlso(obj, d) ==
    LET first == IF Has(d, "PrimitiveType")
                 THEN [obj EXCEPT !.primitive_type = Some(PrimitiveType(d["PrimitiveType"]))]
                 ELSE obj
    IN  IF ~Has(d, "Type")
        THEN first
        ELSE IF d["Type"] \in {"List", "Map"}
        THEN IF Has(d, "PrimitiveItemType")
             THEN [first EXCEPT !.type = Some([cls |-> d["Type"] \o "Type",
                                               itemtype |-> PrimitiveType(d["PrimitiveItemType"])])]
             ELSE IF Has(d, "ItemType")
             THEN [first EXCEPT !.type = Some([cls |-> d["Type"] \o "Type",
                                               itemtype |-> Subproperty(d["ItemType"])])]
             ELSE first
        ELSE [first EXCEPT !.type = Some(Subproperty(d["Type"]))]

\* AttributeParse testing ItemType before PrimitiveItemType
AttributeParseItemTypeFirst(obj, d) ==
    IF Has(d, "PrimitiveType")
    THEN [obj EXCEPT !.primitive_type = Some(PrimitiveType(d["PrimitiveType"]))]
    ELSE IF ~Has(d, "Type")
    THEN obj
    ELSE IF d["Type"] \in {"List", "Map"}
    THEN IF Has(d, "ItemType")
         THEN [obj EXCEPT !.type = Some([cls |-> d["Type"] \o "Type",
                                         itemtype |-> Subproperty(d["ItemType"])])]
         ELSE IF Has(d, "PrimitiveItemType")
         THEN [obj EXCEPT !.type = Some([cls |-> d["Type"] \o "Type",
                                         itemtype |-> PrimitiveType(d["PrimitiveItemType"])])]
         ELSE obj
    ELSE [obj EXCEPT !.type = Some(Subproperty(d["Type"]))]

\* AttributeParse matching "list" as it matches "List"
AttributeParseAnyCase(obj, d) ==
    IF Has(d, "PrimitiveType")
    THEN [obj EXCEPT !.primitive_type = Some(PrimitiveType(d["PrimitiveType"]))]
    ELSE IF ~Has(d, "Type")
    THEN obj
    ELSE IF d["Type"] \in {"List", "list", "Map"}
    THEN LET cls == IF d["Type"] = "Map" THEN "MapType" ELSE "ListType"
         IN  IF Has(d, "PrimitiveItemType")
             THEN [obj EXCEPT !.type = Some([cls |-> cls,
                                             itemtype |-> PrimitiveType(d["PrimitiveItemType"])])]
             ELSE IF Has(d, "ItemType")
             THEN [obj EXCEPT !.type = Some([cls |-> cls,
                                             itemtype |-> Subproperty(d["ItemType"])])]
             ELSE obj
    ELSE [obj EXCEPT !.type = Some(Subproperty(d["Type"]))]

\* AttributeParse taking a List or Map without item type for a reference
AttributeParseFallsThrough(obj, d) ==
    IF Has(d, "PrimitiveType")
    THEN [obj EXCEPT !.primitive_type = Some(PrimitiveType(d["PrimitiveType"]))]
    ELSE IF ~Has(d, "Type")
    THEN obj
    ELSE IF d["Type"] \in {"List", "Map"} /\ Has(d, "PrimitiveItemType")
    THEN [obj EXCEPT !.type = Some([cls |-> d["Type"] \o "Type",
                                    itemtype |-> PrimitiveType(d["PrimitiveItemType"])])]
    ELSE IF d["Type"] \in {"List", "Map"} /\ Has(d, "ItemType")
    THEN [obj EXCEPT !.type = Some([cls |-> d["Type"] \o "Type",
                                    itemtype |-> Subproperty(d["ItemType"])])]
    ELSE [obj EXCEPT !.type = Some(Subproperty(d["Type"]))]

AttributeParse(obj, d) ==
    IF Has(d, "PrimitiveType")
    THEN [obj EXCEPT !.primitive_type = Some(PrimitiveType(d["PrimitiveType"]))]
    ELSE IF Has(d, "Type")
    THEN IF d["Type"] = "List"
         THEN IF Has(d, "PrimitiveItemType")
              THEN [obj EXCEPT !.type = Some(ListType(PrimitiveType(d["PrimitiveItemType"])))]
              ELSE IF Has(d, "ItemType")
              THEN [obj EXCEPT !.type = Some(ListType(Subproperty(d["ItemType"])))]
              ELSE obj
         ELSE IF d["Type"] = "Map"
         THEN IF Has(d, "PrimitiveItemType")
              THEN [obj EXCEPT !.type = Some(MapType(PrimitiveType(d["PrimitiveItemType"])))]
              ELSE IF Has(d, "ItemType")
              THEN [obj EXCEPT !.type = Some(MapType(Subproperty(d["ItemType"])))]
              ELSE obj
         ELSE [obj EXCEPT !.type = Some(Subproperty(d["Type"]))]
    ELSE obj

Attribute(name, d) == Return(AttributeParse(AttributeInit(name), d))

(***************************************************************************)
(* class Property(Attribute)                                               *)
(***************************************************************************)
UpdateTypes == {"Immutable", "Mutable", "Conditional"}

PropertyInit(name) ==
    [cls |-> "Property", name |-> name, item_type |-> None,
     primitive_item_type |-> None, primitive_type |-> None, type |-> None,
     documentation |-> None, duplicate_allowed |-> None, required |-> None,
     update_type |-> None, properties |-> EmptyDict]

\* the setter with "Conditional" left out of its list
UpdateTypeSetterShortList(obj, update_type) ==
    IF update_type \in {"Immutable", "Mutable"}
    THEN Return([obj EXCEPT !.update_type = Some(update_type)])
    ELSE Raise(ValueError(update_type))

UpdateTypeSetter(obj, update_type) ==
    IF update_type \in UpdateTypes
    THEN Return([obj EXCEPT !.update_type = Some(update_type)])
    ELSE Raise(ValueError(update_type))

RECURSIVE Property(_, _)
RECURSIVE PropertySubproperties(_, _)

\* the loop over the sub-map swallowing a failed entry
PropertySubpropertiesSkipFailed(items, properties) ==
    IF items = <<>>
    THEN Return(properties)
    ELSE LET sub == Property(items[1][1], items[1][2])
         IN  PropertySubproperties(Tail(items),
                                   IF sub.raised
                                   THEN properties
                                   ELSE (items[1][1] :> sub.value) @@ properties)

PropertySubproperties(items, properties) ==
    IF items = <<>>
    THEN Return(properties)
    ELSE LET sub == Property(items[1][1], items[1][2])
         IN  IF sub.raised
             THEN sub
             ELSE PropertySubproperties(Tail(items),
                                        (items[1][1] :> sub.value) @@ properties)

\* the rest of parse after the Properties test, reading UpdateType only
\* when present
PropertyLeafOptionalUpdateType(obj, d) ==
    LET set == IF Has(d, "UpdateType")
               THEN UpdateTypeSetter(obj, d["UpdateType"])
               ELSE Return(obj)
    IN  IF set.raised
        THEN set
        ELSE LET req == IF Has(d, "Required")
                        THEN [set.value EXCEPT !.required = Some(d["Required"])]
                        ELSE set.value
                 typed == AttributeParse(req, d)
             IN  IF Has(d, "DuplicatesAllowed")
                 THEN Return([typed EXCEPT !.duplicate_allowed = Some(d["DuplicatesAllowed"])])
                 ELSE Return(typed)

\* the rest of parse after the Properties test, reading Required only when
\* present
PropertyLeafOptionalRequired(obj, d) ==
    IF ~Has(d, "UpdateType")
    THEN Raise(KeyError("UpdateType"))
    ELSE LET set == UpdateTypeSetter(obj, d["UpdateType"])
         IN  IF set.raised
             THEN set
             ELSE LET req == IF Has(d, "Required")
                             THEN [set.value EXCEPT !.required = Some(d["Required"])]
                             ELSE set.value
                      typed == AttributeParse(req, d)
                  IN  IF Has(d, "DuplicatesAllowed")
                      THEN Return([typed EXCEPT !.duplicate_allowed =
                                                    Some(d["DuplicatesAllowed"])])
                      ELSE Return(typed)

PropertyLeaf(obj, d) ==
    IF ~Has(d, "UpdateType")
    THEN Raise(KeyError("UpdateType"))
    ELSE LET set == UpdateTypeSetter(obj, d["UpdateType"])
         IN  IF set.raised
             THEN set
             ELSE IF ~Has(d, "Required")
             THEN Raise(KeyError("Required"))
             ELSE LET typed == AttributeParse(
                                   [set.value EXCEPT !.required = Some(d["Required"])], d)
                  IN  IF Has(d, "DuplicatesAllowed")
                      THEN Return([typed EXCEPT !.duplicate_allowed =
                                                    Some(d["DuplicatesAllowed"])])
                      ELSE Return(typed)

\* parse without the return that ends the Properties branch
PropertyParseNoReturn(obj, d) ==
    IF ~Has(d, "Documentation")
    THEN Raise(KeyError("Documentation"))
    ELSE LET documented == [obj EXCEPT !.documentation = Some(d["Documentation"])]
         IN  IF Has(d, "Properties")
             THEN LET subs == PropertySubproperties(d["Properties"], documented.properties)
                  IN  IF subs.raised
                      THEN subs
                      ELSE PropertyLeaf([documented EXCEPT !.properties = subs.value], d)
             ELSE PropertyLeaf(documented, d)

PropertyParse(obj, d) ==
    IF ~Has(d, "Documentation")
    THEN Raise(KeyError("Documentation"))
    ELSE LET documented == [obj EXCEPT !.documentation = Some(d["Documentation"])]
         IN  IF Has(d, "Properties")
             THEN LET subs == PropertySubproperties(d["Properties"], documented.properties)
                  IN  IF subs.raised
                      THEN subs
                      ELSE Return([documented EXCEPT !.properties = subs.value])
             ELSE PropertyLeaf(documented, d)

Property(name, d) == PropertyParse(PropertyInit(name), d)

(***************************************************************************)
(* class Resource                                                          *)
(***************************************************************************)
ResourceInit(name) ==
    [cls |-> "Resource", name |-> name, documentation |-> None,
     attributes |-> EmptyDict, properties |-> EmptyDict]

(***************************************************************************)
(* The definitions the constructors are called with.                       *)
(***************************************************************************)
MaxNodes == 3
MaxAttributes == 2

PrimitiveTypeValues == {"Integer"}
TypeValues == {"List", "Map", "Tag", "list"}
PrimitiveItemTypeValues == {"String"}
ItemTypeValues == {"Tag"}
DocumentationValues == {"d"}
UpdateTypeValues == UpdateTypes \cup {"Foo"}

AttributeNames == <<"Arn", "Id", "Name", "Url">>
PropertyNames == <<"Sub", "Tags", "Size", "Mode", "Kind">>
ResourceNames == {"AWS::S3::Bucket"}

Opt(k, V) == {EmptyDict} \cup {k :> v : v \in V}

\* Every combination of the four type keys.
AttributeDicts ==
    {a @@ b @@ c @@ e : a \in Opt("PrimitiveType", PrimitiveTypeValues),
                        b \in Opt("Type", TypeValues),
                        c \in Opt("PrimitiveItemType", PrimitiveItemTypeValues),
                        e \in Opt("ItemType", ItemTypeValues)}

\* Every combination of the four keys only Property reads.
MetaDicts ==
    {a @@ b @@ c @@ e : a \in Opt("Documentation", DocumentationValues),
                        b \in Opt("UpdateType", UpdateTypeValues),
                        c \in Opt("Required", BOOLEAN),
                        e \in Opt("DuplicatesAllowed", {TRUE})}

\* Property definitions without a Properties key.
LeafDicts == {m @@ t : m \in MetaDicts, t \in AttributeDicts}

\* The keys a definition with a Properties key carries beside it.
ContainerTypeDicts ==
    {t \in AttributeDicts : /\ ~Has(t, "PrimitiveItemType")
                            /\ ~Has(t, "ItemType")
                            /\ Has(t, "Type") => t["Type"] = "Tag"}
ContainerDicts == {m @@ t : m \in MetaDicts, t \in ContainerTypeDicts}

\* Definitions used as the entries of an iterated map: one of each outcome
\* of Property.parse.
EntryLeafDicts ==
    { [Documentation |-> "s", PrimitiveType |-> "Integer"],
      [Documentation |-> "s", PrimitiveType |-> "Integer",
       UpdateType |-> "Mutable", Required |-> TRUE],
      [Documentation |-> "s", UpdateType |-> "Foo", Required |-> TRUE,
       Type |-> "List", PrimitiveItemType |-> "String"],
      [Documentation |-> "s", UpdateType |-> "Immutable", Required |-> FALSE,
       Type |-> "Map", ItemType |-> "Tag", DuplicatesAllowed |-> TRUE],
      [Documentation |-> "s", UpdateType |-> "Conditional", Required |-> TRUE,
       PrimitiveType |-> "String", Type |-> "List", ItemType |-> "Tag"] }
EntryContainerDicts == { [Documentation |-> "c"] }
EntryAttributeDicts ==
    { [PrimitiveType |-> "String"],
      [Type |-> "List"],
      [Type |-> "Map", PrimitiveItemType |-> "Json", ItemType |-> "Tag"] }

RECURSIVE NodeCount(_)
RECURSIVE ItemsNodeCount(_)
NodeCount(d) == 1 + (IF Has(d, "Properties") THEN ItemsNodeCount(d["Properties"]) ELSE 0)
ItemsNodeCount(items) ==
    IF items = <<>> THEN 0 ELSE NodeCount(items[1][2]) + ItemsNodeCount(Tail(items))

\* The maps of property definitions holding at most n definitions in all,
\* nested ones included, keyed PropertyNames[i], PropertyNames[i+1], ...
RECURSIVE PropertyItems(_, _)
RECURSIVE EntryDicts(_)
EntryDicts(n) ==
    EntryLeafDicts \cup
    {own @@ ("Properties" :> items) : own \in EntryContainerDicts,
                                      items \in PropertyItems(n - 1, 1)}
PropertyItems(n, i) ==
    {<<>>} \cup
    IF n = 0
    THEN {}
    ELSE UNION {{<<<<PropertyNames[i], d>>>> \o rest :
                     rest \in PropertyItems(n - NodeCount(d), i + 1)} :
                d \in EntryDicts(n)}

RECURSIVE AttributeItems(_, _)
AttributeItems(n, i) ==
    {<<>>} \cup
    IF n = 0
    THEN {}
    ELSE {<<<<AttributeNames[i], d>>>> \o rest :
              d \in EntryAttributeDicts, rest \in AttributeItems(n - 1, i + 1)}

PropertyDicts ==
    LeafDicts \cup
    {own @@ ("Properties" :> items) : own \in ContainerDicts,
                                      items \in PropertyItems(MaxNodes - 1, 1)}

ResourceDicts ==
    {a @@ b @@ c : a \in Opt("Documentation", DocumentationValues),
                   b \in Opt("Attributes", AttributeItems(MaxAttributes, 1)),
                   c \in Opt("Properties", PropertyItems(MaxNodes, 1))}

(***************************************************************************)
(* The caller constructs one Attribute, Property or Resource.              *)
(***************************************************************************)
Init ==
    /\ pc = "idle"
    /\ call = None
    /\ self = None
    /\ todo = <<>>
    /\ result = None
    /\ exc = None

Finish(outcome) ==
    IF outcome.raised
    THEN pc' = "raised" /\ exc' = Some(outcome.value) /\ result' = None
    ELSE pc' = "returned" /\ exc' = None /\ result' = Some(outcome.value)

NewAttribute ==
    /\ pc = "idle"
    /\ \E d \in AttributeDicts :
          /\ call' = Some([cls |-> "Attribute", name |-> AttributeNames[1], dict |-> d])
          /\ Finish(Attribute(AttributeNames[1], d))
    /\ UNCHANGED <<self, todo>>

NewProperty ==
    /\ pc = "idle"
    /\ \E d \in PropertyDicts :
          /\ call' = Some([cls |-> "Property", name |-> PropertyNames[1], dict |-> d])
          /\ Finish(Property(PropertyNames[1], d))
    /\ UNCHANGED <<self, todo>>

\* Resource.__init__ up to its call of parse
NewResource ==
    /\ pc = "idle"
    /\ \E name \in ResourceNames, d \in ResourceDicts :
          /\ call' = Some([cls |-> "Resource", name |-> name, dict |-> d])
          /\ self' = Some(ResourceInit(name))
    /\ pc' = "documentation"
    /\ UNCHANGED <<todo, result, exc>>

resourcedict == call[1].dict

\* self.documentation = resourcedict["Documentation"]
ResourceDocumentation ==
    /\ pc = "documentation"
    /\ IF Has(resourcedict, "Documentation")
       THEN /\ self' = Some([self[1] EXCEPT
                                !.documentation = Some(resourcedict["Documentation"])])
            /\ pc' = "attributes_items"
            /\ exc' = exc
       ELSE /\ pc' = "raised"
            /\ exc' = Some(KeyError("Documentation"))
            /\ self' = self
    /\ UNCHANGED <<call, todo, result>>

\* resourcedict["Attributes"].items()
ResourceAttributesItems ==
    /\ pc = "attributes_items"
    /\ IF Has(resourcedict, "Attributes")
       THEN /\ todo' = resourcedict["Attributes"]
            /\ pc' = "attributes"
            /\ exc' = exc
       ELSE /\ pc' = "raised"
            /\ exc' = Some(KeyError("Attributes"))
            /\ todo' = todo
    /\ UNCHANGED <<call, self, result>>

\* self.attributes[name] = Attribute(name, attributedict)
ResourceAttribute ==
    /\ pc = "attributes"
    /\ todo # <<>>
    /\ LET name == todo[1][1]
           built == Attribute(name, todo[1][2])
       IN  self' = Some([self[1] EXCEPT
                            !.attributes = (name :> built.value) @@ self[1].attributes])
    /\ todo' = Tail(todo)
    /\ UNCHANGED <<pc, call, result, exc>>

\* resourcedict["Properties"].items(), once the attributes are exhausted
ResourcePropertiesItems ==
    /\ pc = "attributes"
    /\ todo = <<>>
    /\ IF Has(resourcedict, "Properties")
       THEN /\ todo' = resourcedict["Properties"]
            /\ pc' = "properties"
            /\ exc' = exc
       ELSE /\ pc' = "raised"
            /\ exc' = Some(KeyError("Properties"))
            /\ todo' = todo
    /\ UNCHANGED <<call, self, result>>

\* the loop over the properties storing into self.attributes
ResourcePropertyIntoAttributes ==
    /\ pc = "properties"
    /\ todo # <<>>
    /\ LET name == todo[1][1]
           built == Property(name, todo[1][2])
       IN  IF built.raised
           THEN /\ pc' = "raised"
                /\ exc' = Some(built.value)
                /\ UNCHANGED <<self, todo>>
           ELSE /\ self' = Some([self[1] EXCEPT
                                    !.attributes = (name :> built.value) @@ self[1].attributes])
                /\ todo' = Tail(todo)
                /\ UNCHANGED <<pc, exc>>
    /\ UNCHANGED <<call, result>>

\* self.properties[name] = Property(name, propertydict)
ResourceProperty ==
    /\ pc = "properties"
    /\ todo # <<>>
    /\ LET name == todo[1][1]
           built == Property(name, todo[1][2])
       IN  IF built.raised
           THEN /\ pc' = "raised"
                /\ exc' = Some(built.value)
                /\ UNCHANGED <<self, todo>>
           ELSE /\ self' = Some([self[1] EXCEPT
                                    !.properties = (name :> built.value) @@ self[1].properties])
                /\ todo' = Tail(todo)
                /\ UNCHANGED <<pc, exc>>
    /\ UNCHANGED <<call, result>>

\* the constructor returns the Resource to the caller
ResourceReturn ==
    /\ pc = "properties"
    /\ todo = <<>>
    /\ pc' = "returned"
    /\ result' = self
    /\ UNCHANGED <<call, self, todo, exc>>

Next ==
    \/ NewAttribute
    \/ NewProperty
    \/ NewResource
    \/ ResourceDocumentation
    \/ ResourceAttributesItems
    \/ ResourceAttribute
    \/ ResourcePropertiesItems
    \/ ResourceProperty
    \/ ResourceReturn

Spec == Init /\ [][Next]_vars

(***************************************************************************)
(* Vocabulary of the properties below.                                     *)
(***************************************************************************)
Calls(c) == call # None /\ call[1].cls = c
dict == call[1].dict
Keys(items) == {items[i][1] : i \in 1..Len(items)}
IsContainer(d) == Has(d, "Properties")

UnsetLeafFields(obj) ==
    /\ obj.required = None
    /\ obj.update_type = None
    /\ obj.duplicate_allowed = None
    /\ obj.primitive_type = None
    /\ obj.type = None

\* The <<definition, object>> pairs of a built Property and of the
\* Properties nested in it.
RECURSIVE PropertyPairs(_, _)
PropertyPairs(d, obj) ==
    {<<d, obj>>} \cup
    IF IsContainer(d)
    THEN UNION {PropertyPairs(d["Properties"][i][2], obj.properties[d["Properties"][i][1]]) :
                   i \in {j \in 1..Len(d["Properties"]) :
                             Has(obj.properties, d["Properties"][j][1])}}
    ELSE {}

ItemPairs(items, built) ==
    UNION {PropertyPairs(items[i][2], built[items[i][1]]) :
              i \in {j \in 1..Len(items) : Has(built, items[j][1])}}

\* Every Property constructed so far that the caller or the Resource under
\* construction holds, with the definition it was built from.
BuiltProperties ==
    IF Calls("Property") /\ pc = "returned"
    THEN PropertyPairs(dict, result[1])
    ELSE IF Calls("Resource") /\ Has(dict, "Properties")
    THEN ItemPairs(dict["Properties"], self[1].properties)
    ELSE {}

\* Every Attribute constructed so far, with its definition.
BuiltAttributes ==
    IF Calls("Attribute") /\ pc = "returned"
    THEN {<<dict, result[1]>>}
    ELSE IF Calls("Resource") /\ Has(dict, "Attributes")
    THEN {<<dict["Attributes"][i][2], self[1].attributes[dict["Attributes"][i][1]]>> :
             i \in {j \in 1..Len(dict["Attributes"]) :
                       Has(self[1].attributes, dict["Attributes"][j][1])}}
    ELSE {}

\* Objects whose type fields Attribute.parse has resolved: every Attribute,
\* and every Property built from a definition without a Properties key.
TypeResolved == BuiltAttributes \cup {p \in BuiltProperties : ~IsContainer(p[1])}

(***************************************************************************)
(* C1                                                                      *)
(***************************************************************************)
ScenarioDict ==
    [Documentation |-> "d",
     Properties |-> << <<"Sub", [Documentation |-> "s", PrimitiveType |-> "Integer"]>> >>]

ScenarioDictWith(u, r) ==
    [Documentation |-> "d",
     Properties |-> << <<"Sub", [Documentation |-> "s", PrimitiveType |-> "Integer",
                                 UpdateType |-> u, Required |-> r]>> >>]

ScenarioResult(obj) ==
    /\ UnsetLeafFields(obj)
    /\ Has(obj.properties, "Sub")
    /\ obj.properties["Sub"].primitive_type = Some(PrimitiveType("Integer"))

\* C1 as stated: building a Property from the container definition whose
\* nested entry Sub carries Documentation and PrimitiveType only returns a
\* Property with unset leaf fields and properties["Sub"].primitive_type =
\* Integer.
C1_Original ==
    (Calls("Property") /\ dict = ScenarioDict)
        => (pc = "returned" /\ ScenarioResult(result[1]))

\* C1 amended: that build raises KeyError for UpdateType and returns no
\* Property; with a valid UpdateType and a Required key added to Sub it
\* returns a Property with unset leaf fields and
\* properties["Sub"].primitive_type = Integer.
C1_ScenarioNeedsUpdateType ==
    /\ (Calls("Property") /\ dict = ScenarioDict)
          => (pc = "raised" /\ exc = Some(KeyError("UpdateType")) /\ result = None)
    /\ \A u \in UpdateTypes, r \in BOOLEAN :
          (Calls("Property") /\ dict = ScenarioDictWith(u, r))
              => (pc = "returned" /\ ScenarioResult(result[1]))

C1_Witness ==
    /\ Calls("Property")
    /\ dict = ScenarioDictWith("Mutable", TRUE)
    /\ pc = "returned"
    /\ result[1].properties["Sub"].primitive_type = Some(PrimitiveType("Integer"))

(***************************************************************************)
(* C2                                                                      *)
(***************************************************************************)
EntriesBuild(items) == \A i \in 1..Len(items) : ~Property(items[i][1], items[i][2]).raised

\* C2: a property definition with Documentation and a Properties sub-map
\* whose entries all build yields a Property whose properties mapping has
\* exactly the sub-map's keys, one entry per key, and whose required,
\* update_type, duplicate_allowed, primitive_type and type are unset,
\* whatever other keys stand beside Properties.
C2_ContainerResolvesOnlySubproperties ==
    /\ (/\ Calls("Property")
        /\ Has(dict, "Documentation")
        /\ IsContainer(dict)
        /\ EntriesBuild(dict["Properties"])) => pc = "returned"
    /\ \A p \in BuiltProperties :
          IsContainer(p[1]) =>
              /\ DOMAIN p[2].properties = Keys(p[1]["Properties"])
              /\ Cardinality(DOMAIN p[2].properties) = Len(p[1]["Properties"])
              /\ UnsetLeafFields(p[2])

C2_Witness ==
    /\ Calls("Property")
    /\ pc = "returned"
    /\ IsContainer(dict)
    /\ Len(dict["Properties"]) = 2
    /\ \A k \in {"Required", "UpdateType", "PrimitiveType", "Type", "DuplicatesAllowed"} :
          Has(dict, k)
    /\ dict["UpdateType"] = "Foo"
    /\ DOMAIN result[1].properties = {"Sub", "Tags"}
    /\ UnsetLeafFields(result[1])

(***************************************************************************)
(* C3                                                                      *)
(***************************************************************************)
\* C3 as stated: for every property definition, an UpdateType outside
\* {Immutable, Mutable, Conditional} makes construction fail with the
\* invalid-enumeration error, and each of the three values makes it succeed
\* with update_type reading back the value.
C3_Original ==
    (Calls("Property") /\ Has(dict, "UpdateType")) =>
        IF dict["UpdateType"] \in {"Immutable", "Mutable", "Conditional"}
        THEN pc = "returned" /\ result[1].update_type = Some(dict["UpdateType"])
        ELSE pc = "raised" /\ exc[1].exc = "ValueError" /\ result = None

\* C3 amended: for every property definition with Documentation and without
\* a Properties key, an UpdateType outside the three values makes
\* construction fail with the invalid-enumeration error naming the value,
\* and each of the three values, in a definition that also carries
\* Required, makes it succeed with update_type reading back the value.
C3_UpdateTypeOfDocumentedLeaf ==
    (/\ Calls("Property")
     /\ Has(dict, "UpdateType")
     /\ Has(dict, "Documentation")
     /\ ~IsContainer(dict)) =>
        IF dict["UpdateType"] \in {"Immutable", "Mutable", "Conditional"}
        THEN Has(dict, "Required") =>
                 (pc = "returned" /\ result[1].update_type = Some(dict["UpdateType"]))
        ELSE /\ pc = "raised"
             /\ exc = Some(ValueError(dict["UpdateType"]))
             /\ result = None

C3_Witness ==
    /\ Calls("Property")
    /\ pc = "returned"
    /\ ~IsContainer(dict)
    /\ dict["UpdateType"] = "Conditional"
    /\ result[1].update_type = Some("Conditional")

(***************************************************************************)
(* C4                                                                      *)
(***************************************************************************)
RaisedKeyError == pc = "raised" /\ exc[1].exc = "KeyError" /\ result = None

ResourceKeysMissing ==
    /\ Calls("Resource")
    /\ \E k \in {"Documentation", "Attributes", "Properties"} : ~Has(dict, k)

\* C4 as stated: Property construction fails with the missing-required-field
\* error when Documentation is absent, and when a definition without
\* Properties lacks UpdateType or lacks Required; Resource construction
\* fails when Documentation, Attributes or Properties is absent; a leaf
\* definition with Documentation, a valid UpdateType and Required never
\* fails.
C4_Original ==
    /\ (Calls("Property") /\ ~Has(dict, "Documentation")) => RaisedKeyError
    /\ (/\ Calls("Property")
        /\ ~IsContainer(dict)
        /\ ~Has(dict, "UpdateType") \/ ~Has(dict, "Required")) => RaisedKeyError
    /\ ResourceKeysMissing => (pc # "returned" /\ result = None)
    /\ (/\ Calls("Property")
        /\ ~IsContainer(dict)
        /\ Has(dict, "Documentation")
        /\ Has(dict, "UpdateType")
        /\ dict["UpdateType"] \in UpdateTypes
        /\ Has(dict, "Required")) => pc = "returned"

\* C4 amended: as stated, except that a definition without Properties that
\* lacks Required only fails with the missing-required-field error when its
\* UpdateType is valid or one of Documentation and UpdateType is absent too;
\* with Documentation and an invalid UpdateType it fails with the
\* invalid-enumeration error.
C4_MissingKeysFail ==
    /\ (Calls("Property") /\ ~Has(dict, "Documentation")) => RaisedKeyError
    /\ (Calls("Property") /\ ~IsContainer(dict) /\ ~Has(dict, "UpdateType"))
          => RaisedKeyError
    /\ (Calls("Property") /\ ~IsContainer(dict) /\ ~Has(dict, "Required")) =>
          IF /\ Has(dict, "Documentation")
             /\ Has(dict, "UpdateType")
             /\ dict["UpdateType"] \notin UpdateTypes
          THEN pc = "raised" /\ exc = Some(ValueError(dict["UpdateType"])) /\ result = None
          ELSE RaisedKeyError
    /\ ResourceKeysMissing => (pc # "returned" /\ result = None)
    /\ (/\ Calls("Property")
        /\ ~IsContainer(dict)
        /\ Has(dict, "Documentation")
        /\ Has(dict, "UpdateType")
        /\ dict["UpdateType"] \in UpdateTypes
        /\ Has(dict, "Required")) => pc = "returned"

C4_Witness ==
    /\ Calls("Property")
    /\ ~IsContainer(dict)
    /\ Has(dict, "Documentation")
    /\ Has(dict, "UpdateType")
    /\ dict["UpdateType"] \in UpdateTypes
    /\ ~Has(dict, "Required")
    /\ pc = "raised"
    /\ exc = Some(KeyError("Required"))

(***************************************************************************)
(* C5                                                                      *)
(***************************************************************************)
AtMostOneType(obj) == obj.primitive_type = None \/ obj.type = None

PrimitiveWins(p) ==
    Has(p[1], "PrimitiveType") =>
        /\ p[2].primitive_type = Some(PrimitiveType(p[1]["PrimitiveType"]))
        /\ p[2].type = None

\* C5 as stated: every constructed Attribute and Property, at any nesting
\* depth, has at most one of primitive_type and type set, and a definition
\* with a PrimitiveType key gets primitive_type set to that value and type
\* unset, also when a Type key is present.
C5_Original ==
    \A p \in BuiltAttributes \cup BuiltProperties :
        AtMostOneType(p[2]) /\ PrimitiveWins(p)

\* C5 amended: every constructed Attribute and Property, at any nesting
\* depth, has at most one of primitive_type and type set; an Attribute
\* definition, and a Property definition without a Properties key, with a
\* PrimitiveType key gets primitive_type set to that value and type unset,
\* also when a Type key is present.
C5_AtMostOneType ==
    /\ \A p \in BuiltAttributes \cup BuiltProperties : AtMostOneType(p[2])
    /\ \A p \in TypeResolved : PrimitiveWins(p)

C5_Witness ==
    /\ Calls("Resource")
    /\ pc = "returned"
    /\ \E p \in BuiltProperties :
          /\ Has(p[1], "PrimitiveType")
          /\ Has(p[1], "Type")
          /\ Has(p[1], "ItemType")
          /\ p[2].primitive_type = Some(PrimitiveType("String"))
          /\ p[2].type = None
          /\ \A i \in 1..Len(dict["Properties"]) : dict["Properties"][i][2] # p[1]

(***************************************************************************)
(* C6                                                                      *)
(***************************************************************************)
Collection(kind, item) == IF kind = "List" THEN ListType(item) ELSE MapType(item)

CollectionResolved(p) ==
    (Has(p[1], "Type") /\ p[1]["Type"] \in {"List", "Map"}) =>
        /\ Has(p[1], "PrimitiveItemType") =>
              p[2].type = Some(Collection(p[1]["Type"],
                                          PrimitiveType(p[1]["PrimitiveItemType"])))
        /\ (~Has(p[1], "PrimitiveItemType") /\ Has(p[1], "ItemType")) =>
              p[2].type = Some(Collection(p[1]["Type"], Subproperty(p[1]["ItemType"])))

\* C6 as stated: for all definitions with Type = "List" and
\* PrimitiveItemType = X the type is a ListType of primitive X, also when
\* ItemType is present; with ItemType = Y and no PrimitiveItemType it is a
\* ListType of a subproperty reference to Y; likewise MapType for "Map".
C6_Original ==
    \A p \in BuiltAttributes \cup BuiltProperties : CollectionResolved(p)

\* C6 amended: the same, for all Attribute definitions and all Property
\* definitions without a Properties key that carry no PrimitiveType key.
C6_CollectionTypes ==
    \A p \in TypeResolved : ~Has(p[1], "PrimitiveType") => CollectionResolved(p)

C6_Witness ==
    /\ Calls("Attribute")
    /\ pc = "returned"
    /\ ~Has(dict, "PrimitiveType")
    /\ Has(dict, "Type")
    /\ dict["Type"] = "Map"
    /\ Has(dict, "PrimitiveItemType")
    /\ Has(dict, "ItemType")
    /\ result[1].type = Some(MapType(PrimitiveType("String")))

(***************************************************************************)
(* C7                                                                      *)
(***************************************************************************)
DirectReference(p) ==
    (Has(p[1], "Type") /\ p[1]["Type"] \notin {"List", "Map"}) =>
        p[2].type = Some(Subproperty(p[1]["Type"]))

\* C7 as stated: for all definitions whose Type is any value other than
\* exactly "List" or "Map", "list" included, the type is a direct
\* subproperty reference to that value, whatever PrimitiveItemType and
\* ItemType keys the definition carries.
C7_Original ==
    \A p \in BuiltAttributes \cup BuiltProperties : DirectReference(p)

\* C7 amended: the same, for all Attribute definitions and all Property
\* definitions without a Properties key that carry no PrimitiveType key.
C7_DirectReference ==
    \A p \in TypeResolved : ~Has(p[1], "PrimitiveType") => DirectReference(p)

C7_Witness ==
    /\ Calls("Attribute")
    /\ pc = "returned"
    /\ ~Has(dict, "PrimitiveType")
    /\ Has(dict, "Type")
    /\ dict["Type"] = "list"
    /\ Has(dict, "PrimitiveItemType")
    /\ Has(dict, "ItemType")
    /\ result[1].type = Some(Subproperty("list"))

(***************************************************************************)
(* C8                                                                      *)
(***************************************************************************)
IncompleteCollection(d) ==
    /\ Has(d, "Type")
    /\ d["Type"] \in {"List", "Map"}
    /\ ~Has(d, "PrimitiveItemType")
    /\ ~Has(d, "ItemType")

Typeless(d) == ~Has(d, "PrimitiveType") /\ ~Has(d, "Type")

BothUnset(obj) == obj.primitive_type = None /\ obj.type = None

\* No attribute stops the Resource build: while the attributes are iterated
\* nothing is raised, and past them every one of them is built.
AttributesNeverRaise ==
    /\ Calls("Attribute") => (pc = "returned" /\ exc = None)
    /\ (Calls("Resource") /\ pc = "attributes") => exc = None
    /\ (Calls("Resource") /\ (pc \in {"properties", "returned"}
                              \/ (pc = "raised" /\ exc[1] \notin {KeyError("Documentation"),
                                                                  KeyError("Attributes")})))
          => DOMAIN self[1].attributes = Keys(dict["Attributes"])

\* C8 as stated: type resolution never raises; a definition with Type =
\* "List" or "Map" and neither item-type key, and a definition with neither
\* PrimitiveType nor Type, are built with primitive_type and type both
\* unset, and the enclosing build goes on with the remaining entries.
C8_Original ==
    /\ AttributesNeverRaise
    /\ \A p \in TypeResolved :
          (IncompleteCollection(p[1]) \/ Typeless(p[1])) => BothUnset(p[2])

\* C8 amended: the same, where the definition with Type = "List" or "Map"
\* and neither item-type key carries no PrimitiveType key either.
C8_ToleratedIncompleteness ==
    /\ AttributesNeverRaise
    /\ \A p \in TypeResolved :
          \/ IncompleteCollection(p[1]) /\ ~Has(p[1], "PrimitiveType")
          \/ Typeless(p[1])
          => BothUnset(p[2])

C8_Witness ==
    /\ Calls("Resource")
    /\ pc = "returned"
    /\ Len(dict["Attributes"]) = 2
    /\ dict["Attributes"][1][2] = [Type |-> "List"]
    /\ BothUnset(result[1].attributes[dict["Attributes"][1][1]])
    /\ DOMAIN result[1].attributes = Keys(dict["Attributes"])

(***************************************************************************)
(* C9                                                                      *)
(***************************************************************************)
\* Building the definition, or a definition nested in it at any depth, fails.
RECURSIVE SomeBuildFails(_)
SomeBuildFails(d) ==
    \/ Property("p", d).raised
    \/ /\ IsContainer(d)
       /\ \E i \in 1..Len(d["Properties"]) : SomeBuildFails(d["Properties"][i][2])

\* C9: if building a property of the resource definition fails, at any
\* nesting depth, no Resource is returned to the caller, however many
\* attributes and sibling properties were built before it.
C9_NoPartialResource ==
    (/\ Calls("Resource")
     /\ Has(dict, "Properties")
     /\ \E i \in 1..Len(dict["Properties"]) : SomeBuildFails(dict["Properties"][i][2]))
        => (pc # "returned" /\ result = None)

C9_Witness ==
    /\ Calls("Resource")
    /\ pc = "raised"
    /\ result = None
    /\ DOMAIN self[1].attributes # {}
    /\ DOMAIN self[1].properties # {}
    /\ IsContainer(todo[1][2])
    /\ ~Property("p", [todo[1][2] EXCEPT !["Properties"] = <<>>]).raised

(***************************************************************************)
(* C10                                                                     *)
(***************************************************************************)
WellFormed(d) ==
    /\ Has(d, "Documentation")
    /\ Has(d, "Attributes")
    /\ Has(d, "Properties")
    /\ EntriesBuild(d["Properties"])

NamedByKey(built) == \A k \in DOMAIN built : built[k].name = k

\* C10: building a Resource from a well-formed definition with N attributes
\* and M properties yields N entries in attributes and M in properties,
\* keyed by the names of the input mappings, each child's name its key.
C10_RoundTrip ==
    Calls("Resource") =>
        /\ WellFormed(dict) => pc # "raised"
        /\ pc = "returned" =>
              /\ WellFormed(dict)
              /\ DOMAIN result[1].attributes = Keys(dict["Attributes"])
              /\ Cardinality(DOMAIN result[1].attributes) = Len(dict["Attributes"])
              /\ DOMAIN result[1].properties = Keys(dict["Properties"])
              /\ Cardinality(DOMAIN result[1].properties) = Len(dict["Properties"])
              /\ NamedByKey(result[1].attributes)
              /\ NamedByKey(result[1].properties)

C10_Witness ==
    /\ Calls("Resource")
    /\ pc = "returned"
    /\ Len(dict["Attributes"]) = 2
    /\ Len(dict["Properties"]) = 2
    /\ DOMAIN result[1].attributes = {"Arn", "Id"}
    /\ DOMAIN result[1].properties = {"Sub", "Tags"}

====
